---- MODULE Spec2Model ----
(***************************************************************************)
(* Rental-Investment-Evaluator: the extraction-and-normalization pipeline  *)
(* of backend/main.py (Perplexity + OpenAI) and backend/app.py (Gemini).   *)
(*                                                                         *)
(* Text is a sequence of one-character strings.  A Python number is the    *)
(* exact rational n/d with d > 0.  A JSON value is a record                *)
(* [t, n, d, s]: t its type, n/d its number, s its characters.             *)
(***************************************************************************)
EXTENDS Integers, Sequences, FiniteSets, TLC

VARIABLES run, conc, text, out, out2, num, phase

vars == <<run, conc, text, out, out2, num, phase>>

\* ------------------------------------------------------------------ bounds
MaxRecords == 2
MaxTextLen == 5
MaxStrLen == 4
MaxConcRecords == 1

\* ------------------------------------------------------------------ text
NL == "\n"
\* the backtick, written ' here: a TLA+ string cannot hold a backtick
BT == "'"
Whitespace == {" ", NL}
DigitChars == <<"0", "1", "2", "3", "4", "5", "6", "7", "8", "9">>

IsDigit(c) == \E i \in 1..10 : DigitChars[i] = c
DigitVal(c) == (CHOOSE i \in 1..10 : DigitChars[i] = c) - 1

Drop(s, k) == IF k >= Len(s) THEN <<>> ELSE SubSeq(s, k + 1, Len(s))
Take(s, k) == IF k <= 0 THEN <<>> ELSE SubSeq(s, 1, k)

RECURSIVE LStripSet(_, _)
LStripSet(s, cs) ==
    IF s # <<>> /\ Head(s) \in cs THEN LStripSet(Tail(s), cs) ELSE s

RECURSIVE RStripSet(_, _)
RStripSet(s, cs) ==
    IF s # <<>> /\ s[Len(s)] \in cs THEN RStripSet(Take(s, Len(s) - 1), cs) ELSE s

\* str.strip(), str.rstrip(): whitespace off both ends, off the right end
StrStrip(s) == RStripSet(LStripSet(s, Whitespace), Whitespace)
StrRStrip(s) == RStripSet(s, Whitespace)

Fence == <<BT, BT, BT>>
StartsWith(s, p) == Len(s) >= Len(p) /\ Take(s, Len(p)) = p
EndsWith(s, p) == Len(s) >= Len(p) /\ Drop(s, Len(s) - Len(p)) = p

\* str.find(c): 0-based index of the first c, -1 when there is none
Find(s, c) ==
    IF \E i \in 1..Len(s) : s[i] = c
    THEN (CHOOSE i \in 1..Len(s) : s[i] = c /\ \A j \in 1..(i - 1) : s[j] # c) - 1
    ELSE -1

\* str.rfind(p): 0-based index of the last occurrence of p, -1 when none
RFind(s, p) ==
    LET at(i) == i + Len(p) - 1 <= Len(s) /\ SubSeq(s, i, i + Len(p) - 1) = p
        hits == {i \in 1..Len(s) : at(i)}
    IN  IF hits = {} THEN -1
        ELSE (CHOOSE i \in hits : \A j \in hits : j <= i) - 1

\* main.py 94-98: drop the opening fence line
AfterOpenFence(t) ==
    LET first_newline == Find(t, NL)
    IN  IF first_newline # -1 THEN Drop(t, first_newline + 1)
        ELSE LStripSet(t, {BT})

\* main.py 100-103: drop the closing fence
AfterCloseFence(t) ==
    IF EndsWith(StrRStrip(t), Fence)
    THEN LET r == StrRStrip(t)
             end_idx == RFind(r, Fence)
         IN  StrStrip(Take(r, end_idx))
    ELSE t

strip_markdown_fences(t0) ==
    LET t == StrStrip(t0)
    IN  IF StartsWith(t, Fence) THEN AfterCloseFence(AfterOpenFence(t)) ELSE t

\* ------------------------------------------------------------------ numbers
\* a Python number: the exact rational n/d, d > 0
Rat(n, d) == [n |-> n, d |-> d]
RatLe(a, b) == a.n * b.d <= b.n * a.d
RatLt(a, b) == a.n * b.d < b.n * a.d
RatEq(a, b) == a.n * b.d = b.n * a.d
RatPos(a) == a.n > 0
RatMul(a, b) == Rat(a.n * b.n, a.d * b.d)
\* a / b for b > 0
RatDiv(a, b) == Rat(a.n * b.d, a.d * b.n)

RECURSIVE Pow10(_)
Pow10(k) == IF k = 0 THEN 1 ELSE 10 * Pow10(k - 1)

RECURSIVE IntOfDigits(_)
IntOfDigits(ds) ==
    IF ds = <<>> THEN 0
    ELSE 10 * IntOfDigits(Take(ds, Len(ds) - 1)) + DigitVal(ds[Len(ds)])

IsDigitOrDot(c) == IsDigit(c) \/ c = "."
IsDot(c) == c = "."

\* the outcome of a conversion: a value n/d, or the exception it raised
Value(n, d) == [ok |-> TRUE, err |-> "", n |-> n, d |-> d]
Raised(e) == [ok |-> FALSE, err |-> e, n |-> 0, d |-> 1]

\* Python's float(str) on text made of digits and dots only: at least one
\* digit and at most one dot, else ValueError
FloatOfDigitsAndDots(c) ==
    LET dot == Find(c, ".")
        digits == SelectSeq(c, IsDigit)
        frac == IF dot = -1 THEN 0 ELSE Len(c) - (dot + 1)
    IN  IF Len(digits) = 0 \/ Len(SelectSeq(c, IsDot)) > 1
        THEN Raised("ValueError")
        ELSE Value(IntOfDigits(digits), Pow10(frac))

\* Python's float(str): surrounding whitespace is ignored; of the characters
\* modelled here only digits and the dot belong to a number
PyFloatOfStr(s) ==
    LET t == StrStrip(s)
    IN  IF \A i \in 1..Len(t) : IsDigitOrDot(t[i])
        THEN FloatOfDigitsAndDots(t)
        ELSE Raised("ValueError")

\* ------------------------------------------------------------------ JSON
\* a decoded JSON value; Missing is what dict.get finds for a key that is
\* not there
JInt(k) == [t |-> "int", n |-> k, d |-> 1, s |-> <<>>]
JFloat(n, d) == [t |-> "float", n |-> n, d |-> d, s |-> <<>>]
JStr(s) == [t |-> "str", n |-> 0, d |-> 1, s |-> s]
JNull == [t |-> "null", n |-> 0, d |-> 1, s |-> <<>>]
Missing == [t |-> "missing", n |-> 0, d |-> 1, s |-> <<>>]

IsNumber(x) == x.t \in {"int", "float"}

\* dict.get(key) and dict.get(key, default)
Get(x) == IF x.t = "missing" THEN JNull ELSE x
GetOr(x, default) == IF x.t = "missing" THEN default ELSE x

\* Python truth value, as the "or" of main.py 468-472 tests it
Truthy(x) ==
    CASE x.t \in {"null", "missing"} -> FALSE
      [] IsNumber(x) -> x.n # 0
      [] x.t = "str" -> x.s # <<>>
      [] OTHER -> FALSE

\* safe_float with a fault: text that cleans to nothing becomes 0.0
safe_float_or_zero(x) ==
    CASE IsNumber(x) -> Value(x.n, x.d)
      [] x.t = "str" ->
            LET cleaned == SelectSeq(x.s, IsDigitOrDot)
            IN  IF cleaned = <<>> THEN Value(0, 1)
                ELSE FloatOfDigitsAndDots(cleaned)
      [] OTHER -> Raised("TypeError")

\* main.py 108-120
safe_float(x) ==
    CASE IsNumber(x) -> Value(x.n, x.d)
      [] x.t = "str" ->
            LET cleaned == SelectSeq(x.s, IsDigitOrDot)
            IN  IF cleaned = <<>> THEN Raised("ValueError")
                ELSE FloatOfDigitsAndDots(cleaned)
      [] OTHER -> Raised("TypeError")

\* re.search(r"\d+", s): the first maximal run of digits, <<>> when none
RECURSIVE DigitPrefix(_)
DigitPrefix(s) ==
    IF s # <<>> /\ IsDigit(Head(s)) THEN <<Head(s)>> \o DigitPrefix(Tail(s)) ELSE <<>>

RECURSIVE FirstDigitRun(_)
FirstDigitRun(s) ==
    IF s = <<>> THEN <<>>
    ELSE IF IsDigit(Head(s)) THEN DigitPrefix(s) ELSE FirstDigitRun(Tail(s))

\* int(x) of a float: truncation toward zero
Trunc(n, d) == IF n >= 0 THEN n \div d ELSE -((-n) \div d)

\* main.py 123-137
safe_int(x) ==
    CASE x.t = "int" -> Value(x.n, 1)
      [] x.t = "float" -> Value(Trunc(x.n, x.d), 1)
      [] x.t = "str" ->
            LET m == FirstDigitRun(x.s)
            IN  IF m = <<>> THEN Raised("ValueError") ELSE Value(IntOfDigits(m), 1)
      [] OTHER -> Raised("TypeError")

\* ------------------------------------------------------------------ records
RECURSIVE DigitsOf(_)
DigitsOf(k) ==
    IF k < 10 THEN <<DigitChars[k + 1]>>
    ELSE DigitsOf(k \div 10) \o <<DigitChars[(k % 10) + 1]>>

\* str(x) of the values an id, an address or a url is drawn from here:
\* strings, integers and null
PyStr(x) ==
    CASE x.t = "str" -> x.s
      [] x.t = "int" -> IF x.n < 0 THEN <<"-">> \o DigitsOf(-x.n) ELSE DigitsOf(x.n)
      [] x.t = "null" -> <<"N", "o", "n", "e">>

\* main.py 484: f"prop-{i}"
DefaultId(i) == <<"p", "r", "o", "p", "-">> \o DigitsOf(i)
\* app.py 170: f"prop_{idx}"
AppId(idx) == <<"p", "r", "o", "p", "_">> \o DigitsOf(idx)

UnknownAddress == <<"U", "n", "k", "n", "o", "w", "n", " ", "a", "d", "d", "r", "e", "s", "s">>
Unknown == <<"U", "n", "k", "n", "o", "w", "n">>

\* main.py 34-40 (SearchParams), with the profiles of debug.py 11-28 cut to
\* the fields the normalizer reads, and a profile whose size band is 0-0
Profiles ==
    { [bedrooms |-> 2, minSqft |-> 700, maxSqft |-> 1100],
      [bedrooms |-> 0, minSqft |-> 0, maxSqft |-> 0] }

\* main.py 43-51 (PropertyResult); src is the 1-based position of the raw
\* record the object was built from (the object's identity)
Property(pid, address, price, bedrooms, sqft, est_rent, gross_yield, url, i) ==
    [id |-> pid, address |-> address, price |-> price, bedrooms |-> bedrooms,
     sqft |-> sqft, estimatedRent |-> est_rent, grossYield |-> gross_yield,
     url |-> url, src |-> i]

NoProperty == Property(<<>>, <<>>, Rat(0, 1), 0, Rat(0, 1), Rat(0, 1), Rat(0, 1), <<>>, 0)

Kept(rec) == [ok |-> TRUE, err |-> "", rec |-> rec]
Skipped(e) == [ok |-> FALSE, err |-> e, rec |-> NoProperty]

\* main.py 468-472: the first truthy alias, else the last operand of the "or"
PriceRaw(p) ==
    IF Truthy(Get(p.price_usd)) THEN Get(p.price_usd)
    ELSE IF Truthy(Get(p.price)) THEN Get(p.price)
    ELSE Get(p.asking_price)

\* DefaultSqft with a fault: the lower end of the band, not its midpoint
DefaultSqftLow(params) == JFloat(params.minSqft, 1)

\* main.py 481: (params.minSqft + params.maxSqft) / 2.0
DefaultSqft(params) == JFloat(params.minSqft + params.maxSqft, 2)

\* main.py 479: params.bedrooms
DefaultBedrooms(params) == JInt(params.bedrooms)

\* EstRent with a fault: a rent other than the run's
EstRentPerListing(avg_rent_hint) == Rat(avg_rent_hint.n + avg_rent_hint.d, avg_rent_hint.d)

\* main.py 477: est_rent = float(avg_rent_hint)
EstRent(avg_rent_hint) == avg_rent_hint

\* main.py 490: gross_yield = (est_rent * 12.0) / price
GrossYield(est_rent, price) == RatDiv(RatMul(est_rent, Rat(12, 1)), price)

\* main.py 467-508: the body of the loop for the i-th raw record p; every
\* exception it raises is caught at 504 and skips the record
ProcessRecord(p, i, avg_rent_hint, params) ==
    IF ~p.dict THEN Skipped("AttributeError")
    ELSE
    LET price_raw == PriceRaw(p)
        price == safe_float(price_raw)
        est_rent == EstRent(avg_rent_hint)
        bedrooms == safe_int(GetOr(p.bedrooms, DefaultBedrooms(params)))
        sqft == safe_float(GetOr(p.sqft, DefaultSqft(params)))
        address == PyStr(GetOr(p.address, JStr(UnknownAddress)))
        pid == PyStr(GetOr(p.id, JStr(DefaultId(i))))
        url == PyStr(GetOr(p.url, JStr(<<>>)))
    IN  IF price_raw.t = "null" THEN Skipped("KeyError")
        ELSE IF ~price.ok THEN Skipped(price.err)
        ELSE IF ~bedrooms.ok THEN Skipped(bedrooms.err)
        ELSE IF ~sqft.ok THEN Skipped(sqft.err)
        ELSE IF price.n <= 0 \/ ~RatPos(est_rent) THEN Skipped("ValueError")
        ELSE Kept(Property(pid, address, Rat(price.n, price.d), bedrooms.n,
                           Rat(sqft.n, sqft.d), est_rent,
                           GrossYield(est_rent, Rat(price.n, price.d)), url, i))

\* ParseLoop with a fault: the first failing record ends the loop
RECURSIVE ParseLoopAborting(_, _, _, _)
ParseLoopAborting(raw_props, i, avg_rent_hint, params) ==
    IF i > Len(raw_props) THEN <<>>
    ELSE LET r == ProcessRecord(raw_props[i], i, avg_rent_hint, params)
         IN  IF r.ok
             THEN <<r.rec>> \o ParseLoopAborting(raw_props, i + 1, avg_rent_hint, params)
             ELSE <<>>

\* main.py 464-510: the loop over enumerate(raw_props, start=1), from i on
RECURSIVE ParseLoop(_, _, _, _)
ParseLoop(raw_props, i, avg_rent_hint, params) ==
    IF i > Len(raw_props) THEN <<>>
    ELSE LET r == ProcessRecord(raw_props[i], i, avg_rent_hint, params)
         IN  (IF r.ok THEN <<r.rec>> ELSE <<>>)
                 \o ParseLoop(raw_props, i + 1, avg_rent_hint, params)

\* InsertByYield with a fault: an equal yield goes in front (ties reversed)
RECURSIVE InsertByYieldTiesFirst(_, _)
InsertByYieldTiesFirst(sorted, x) ==
    IF sorted = <<>> THEN <<x>>
    ELSE IF RatLe(Head(sorted).grossYield, x.grossYield) THEN <<x>> \o sorted
    ELSE <<Head(sorted)>> \o InsertByYieldTiesFirst(Tail(sorted), x)

\* where a stable descending sort puts x: behind every element whose key is
\* not smaller
RECURSIVE InsertByYield(_, _)
InsertByYield(sorted, x) ==
    IF sorted = <<>> THEN <<x>>
    ELSE IF RatLt(Head(sorted).grossYield, x.grossYield) THEN <<x>> \o sorted
    ELSE <<Head(sorted)>> \o InsertByYield(Tail(sorted), x)

\* SortByYield with a fault: a record whose yield is already there is dropped
RECURSIVE SortByYieldDistinct(_)
SortByYieldDistinct(properties) ==
    IF properties = <<>> THEN <<>>
    ELSE LET rest == SortByYieldDistinct(Take(properties, Len(properties) - 1))
             x == properties[Len(properties)]
         IN  IF \E k \in 1..Len(rest) : RatEq(rest[k].grossYield, x.grossYield)
             THEN rest
             ELSE InsertByYield(rest, x)

\* main.py 570, app.py 211: sorted(key=grossYield, reverse=True)
RECURSIVE SortByYield(_)
SortByYield(properties) ==
    IF properties = <<>> THEN <<>>
    ELSE InsertByYield(SortByYield(Take(properties, Len(properties) - 1)),
                       properties[Len(properties)])

\* ------------------------------------------------------------------ inputs
SeqUpTo(S, k) == UNION {[1..m -> S] : m \in 0..k}

\* a raw listing as the services return it: a JSON object (dict) with any
\* of the keys, or something that is no object
Raw(id, price_usd, price, asking_price, bedrooms, sqft) ==
    [dict |-> TRUE, id |-> id, address |-> JStr(<<"A">>), price_usd |-> price_usd,
     price |-> price, asking_price |-> asking_price, bedrooms |-> bedrooms,
     sqft |-> sqft, url |-> Missing]

BaseRaw == Raw(Missing, JInt(1000), Missing, Missing, JInt(2), JInt(850))
NotADict == [Raw(Missing, Missing, Missing, Missing, Missing, Missing) EXCEPT !.dict = FALSE]

PriceCases ==
    { <<JInt(1001), Missing, Missing>>,
      <<Missing, Missing, Missing>>,
      <<JInt(0), JInt(400), Missing>>,
      <<Missing, JInt(400), Missing>>,
      <<Missing, Missing, JInt(400)>>,
      <<Missing, JInt(1000), Missing>>,
      <<Missing, JInt(1001), Missing>>,
      <<JStr(<<"$", "1", ",", "0", "0", "0">>), Missing, Missing>>,
      <<JStr(<<"N", "/", "A">>), Missing, Missing>>,
      <<JStr(<<"1", ".", "2", ".", "3">>), Missing, Missing>>,
      <<JInt(-5), Missing, Missing>>,
      <<JNull, Missing, Missing>> }

SqftCases == {Missing, JInt(0), JNull, JStr(<<"9", "0", "0", " ", "s", "q", " ", "f", "t">>)}
BedroomCases == {Missing, JFloat(5, 2), JStr(<<"s", "t", "u", "d", "i", "o">>), JStr(<<"3", " ", "b", "d">>)}
IdCases == {JStr(<<"x">>), JStr(DefaultId(1)), JInt(7)}

\* the base record, and the records that differ from it in one group of keys
RawRecords ==
    {BaseRaw, NotADict}
        \cup {[BaseRaw EXCEPT !.price_usd = c[1], !.price = c[2], !.asking_price = c[3]] :
                c \in PriceCases}
        \cup {[BaseRaw EXCEPT !.sqft = c] : c \in SqftCases}
        \cup {[BaseRaw EXCEPT !.bedrooms = c] : c \in BedroomCases}
        \cup {[BaseRaw EXCEPT !.bedrooms = Missing, !.sqft = Missing]}
        \cup {[BaseRaw EXCEPT !.id = c] : c \in IdCases}

\* the JSON documents a rent reply can hold, each one element of the text;
\* RentDoc is what json.loads makes of it
RentDocTokens ==
    {"{avg:1}", "{avg:2}", "{avg:0}", "{avg:-1}", "{avg:'2'}", "{avg:'$2'}",
     "{avg:null}", "{}", "[]"}

RentDoc(tok) ==
    CASE tok = "{avg:1}" -> [dict |-> TRUE, average_rent_usd |-> JInt(1)]
      [] tok = "{avg:2}" -> [dict |-> TRUE, average_rent_usd |-> JInt(2)]
      [] tok = "{avg:0}" -> [dict |-> TRUE, average_rent_usd |-> JInt(0)]
      [] tok = "{avg:-1}" -> [dict |-> TRUE, average_rent_usd |-> JInt(-1)]
      [] tok = "{avg:'2'}" -> [dict |-> TRUE, average_rent_usd |-> JStr(<<"2">>)]
      [] tok = "{avg:'$2'}" -> [dict |-> TRUE, average_rent_usd |-> JStr(<<"$", "2">>)]
      [] tok = "{avg:null}" -> [dict |-> TRUE, average_rent_usd |-> JNull]
      [] tok = "{}" -> [dict |-> TRUE, average_rent_usd |-> Missing]
      [] tok = "[]" -> [dict |-> FALSE, average_rent_usd |-> Missing]

\* the content of a rent reply: the document bare, fenced, fenced with a
\* language tag, with the closing fence missing; or no document at all
RentContents ==
    UNION {{ <<tok>>,
             <<" ", tok, NL>>,
             <<BT, BT, BT, NL, tok, NL, BT, BT, BT>>,
             <<BT, BT, BT, "j", "s", "o", "n", NL, tok, NL, BT, BT, BT, NL>>,
             <<BT, BT, BT, NL, tok>>,
             <<BT, BT, BT, tok, BT, BT, BT>> } : tok \in RentDocTokens}
        \cup {<<>>, <<"a">>}

\* an answer of the HTTP call: httpx raised, a status other than 200, a body
\* without choices[0].message.content, or that content
HttpReplies(contents) ==
    {[kind |-> k, content |-> <<>>] : k \in {"raised", "status", "envelope"}}
        \cup {[kind |-> "content", content |-> c] : c \in contents}

HarvestTexts == {<<"-", " ", "A">>, <<>>}

\* an answer of the OpenAI call of main.py 441-458: the call raised, the
\* content is no JSON, is JSON but no object, or is an object whose
\* "properties" is missing, no list, or a list
NormalizeReplies ==
    {[kind |-> k, props |-> "missing", items |-> <<>>] :
        k \in {"raised", "not_json", "not_object"}}
        \cup {[kind |-> "object", props |-> t, items |-> <<>>] : t \in {"missing", "not_list"}}
        \cup {[kind |-> "object", props |-> "list", items |-> it] :
                it \in SeqUpTo(RawRecords, MaxRecords)}

\* an answer of the Gemini call of app.py 82-92: something raised (status,
\* envelope, json.loads), or the JSON it held: no object, or an object with
\* average_rent and listings as given
GeminiReply(kind, average_rent, listings, items) ==
    [kind |-> kind, average_rent |-> average_rent, listings |-> listings, items |-> items]

GeminiRentReplies ==
    {GeminiReply(k, Missing, "missing", <<>>) : k \in {"raised", "not_object"}}
        \cup {GeminiReply("object", a, "missing", <<>>) :
                a \in {JInt(1), JInt(2), JInt(0), JInt(-1), JNull, Missing}}

GeminiListingReplies ==
    {GeminiReply(k, Missing, "missing", <<>>) : k \in {"raised", "not_object"}}
        \cup {GeminiReply("object", Missing, t, <<>>) : t \in {"missing", "null"}}
        \cup {GeminiReply("object", Missing, "list", it) :
                it \in SeqUpTo(RawRecords, MaxRecords)}

\* ------------------------------------------------------------------ a run
\* one request: which backend serves it, which endpoint, the profile, the
\* stage it is at, the calls it has issued, and what it has computed
NoResponse == [averageRent |-> Rat(0, 1), properties |-> <<>>]

NewRun(variant, endpoint, params) ==
    [variant |-> variant, endpoint |-> endpoint, params |-> params,
     pc |-> "rent", status |-> "running", error |-> "", calls |-> <<>>,
     failures |-> <<>>, avg_rent |-> JNull, raw_text |-> <<>>,
     reply_parsed |-> FALSE, reply_props |-> "", raw_props |-> <<>>,
     properties |-> <<>>,
     response |-> NoResponse]

\* an exception leaves the handler: FastAPI answers with an error
Fail(r, e) == [r EXCEPT !.status = "error", !.error = e, !.pc = "done"]

\* the history of the run's outbound calls: calls are those issued, failures
\* those that did not come back with a reply of the expected shape
Called(r, service) == [r EXCEPT !.calls = Append(r.calls, service)]
CallFailed(r, service) == [r EXCEPT !.failures = Append(r.failures, service)]

\* json.loads of text holding one document of docs and whitespace
JsonLoads(cleaned, docs) ==
    LET t == StrStrip(cleaned)
    IN  IF Len(t) = 1 /\ t[1] \in docs THEN [ok |-> TRUE, doc |-> t[1]]
        ELSE [ok |-> FALSE, doc |-> ""]

\* main.py 232-236: float(parsed["average_rent_usd"]), which must be positive
AverageRentField(parsed) ==
    LET v == parsed.average_rent_usd
        avg == CASE IsNumber(v) -> Value(v.n, v.d)
                 [] v.t = "str" -> PyFloatOfStr(v.s)
                 [] OTHER -> Raised("TypeError")
    IN  IF ~parsed.dict THEN Raised("TypeError")
        ELSE IF v.t = "missing" THEN Raised("KeyError")
        ELSE IF ~avg.ok THEN avg
        ELSE IF avg.n <= 0 THEN Raised("ValueError")
        ELSE avg

\* main.py 144-241: fetch_average_rent_from_perplexity on the reply it got
FetchAverageRentResult(reply) ==
    IF reply.kind = "raised" THEN Raised("rent: request raised")
    ELSE IF reply.kind = "status" THEN Raised("rent: status")
    ELSE IF reply.kind = "envelope" THEN Raised("rent: envelope")
    ELSE LET cleaned == strip_markdown_fences(reply.content)
             parsed == JsonLoads(cleaned, RentDocTokens)
         IN  IF ~parsed.ok THEN Raised("rent: json")
             ELSE IF ~AverageRentField(RentDoc(parsed.doc)).ok THEN Raised("rent: fields")
             ELSE AverageRentField(RentDoc(parsed.doc))

\* EvaluationResult with a fault: no listing is an error
EvaluationResultNonEmpty(r, avg_rent, properties) ==
    IF properties = <<>> THEN Fail(r, "NoValidListingsError")
    ELSE [r EXCEPT !.status = "ok", !.pc = "done", !.properties = properties,
                   !.response = [averageRent |-> avg_rent,
                                 properties |-> SortByYield(properties)]]

\* main.py 568-576, app.py 210-217: sort and answer
EvaluationResult(r, avg_rent, properties) ==
    [r EXCEPT !.status = "ok", !.pc = "done", !.properties = properties,
              !.response = [averageRent |-> avg_rent,
                            properties |-> SortByYield(properties)]]

\* main.py 543 (evaluate, 568) and 559-560 (estimate_rent)
MainRentStep(r, reply) ==
    LET avg == FetchAverageRentResult(reply)
        c == Called(r, "rent")
    IN  IF ~avg.ok THEN Fail(CallFailed(c, "rent"), avg.err)
        ELSE IF r.endpoint = "estimate_rent"
        THEN [c EXCEPT !.avg_rent = JFloat(avg.n, avg.d), !.status = "ok", !.pc = "done",
                       !.response = [averageRent |-> Rat(avg.n, avg.d), properties |-> <<>>]]
        ELSE [c EXCEPT !.avg_rent = JFloat(avg.n, avg.d), !.pc = "harvest"]

\* main.py 544, 248-351: fetch_listings_from_perplexity
MainHarvestStep(r, reply) ==
    LET c == Called(r, "harvest")
        f == CallFailed(c, "harvest")
    IN  IF reply.kind = "raised" THEN Fail(f, "listings: request raised")
        ELSE IF reply.kind = "status" THEN Fail(f, "listings: status")
        ELSE IF reply.kind = "envelope" THEN Fail(f, "listings: envelope")
        ELSE [c EXCEPT !.raw_text = reply.content, !.pc = "normalize"]

\* MainNormalizeStep with a fault: a "properties" that is no list is iterated
\* as it is, which raises and fails the run
MainNormalizeStepUnguarded(r, reply) ==
    LET c == Called(r, "normalize")
        avg == Rat(r.avg_rent.n, r.avg_rent.d)
        raw_props == IF reply.props = "list" THEN reply.items ELSE <<>>
        f == CallFailed(c, "normalize")
        got == [c EXCEPT !.reply_parsed = TRUE, !.reply_props = reply.props,
                         !.raw_props = raw_props]
    IN  IF reply.kind = "raised" THEN Fail(f, "normalize: call raised")
        ELSE IF reply.kind = "not_json" THEN Fail(f, "normalize: json")
        ELSE IF reply.kind = "not_object" THEN Fail(f, "normalize: AttributeError")
        ELSE IF reply.props = "not_list" THEN Fail(got, "normalize: TypeError")
        ELSE EvaluationResult(got, avg, ParseLoop(raw_props, 1, avg, r.params))

\* main.py 545 and 359-521 (parse_listings_with_openai), then 570-576
MainNormalizeStep(r, reply) ==
    LET c == Called(r, "normalize")
        avg == Rat(r.avg_rent.n, r.avg_rent.d)
        raw_props == IF reply.props = "list" THEN reply.items ELSE <<>>
        f == CallFailed(c, "normalize")
    IN  IF reply.kind = "raised" THEN Fail(f, "normalize: call raised")
        ELSE IF reply.kind = "not_json" THEN Fail(f, "normalize: json")
        ELSE IF reply.kind = "not_object" THEN Fail(f, "normalize: AttributeError")
        ELSE EvaluationResult([c EXCEPT !.reply_parsed = TRUE,
                                        !.reply_props = reply.props,
                                        !.raw_props = raw_props],
                              avg, ParseLoop(raw_props, 1, avg, r.params))

\* ------------------------------------------------------------------ app.py
\* app.py 82-96: call_gemini_json; whatever is raised is swallowed and a
\* dict with average_rent 0 is returned in its place
call_gemini_json(reply) ==
    IF reply.kind = "raised" THEN GeminiReply("object", JInt(0), "missing", <<>>)
    ELSE reply

\* pydantic's validation of a float, an int and a str field (app.py 44-52)
PydFloat(x) ==
    CASE IsNumber(x) -> Value(x.n, x.d)
      [] x.t = "str" -> PyFloatOfStr(x.s)
      [] OTHER -> Raised("ValidationError")

PydInt(x) ==
    CASE x.t = "int" -> Value(x.n, 1)
      [] x.t = "float" -> IF x.n % x.d = 0 THEN Value(x.n \div x.d, 1)
                          ELSE Raised("ValidationError")
      [] x.t = "str" -> IF x.s # <<>> /\ \A i \in 1..Len(x.s) : IsDigit(x.s[i])
                        THEN Value(IntOfDigits(x.s), 1)
                        ELSE Raised("ValidationError")
      [] OTHER -> Raised("ValidationError")

PydStr(x) == IF x.t = "str" THEN [ok |-> TRUE, s |-> x.s] ELSE [ok |-> FALSE, s |-> <<>>]

\* app.py 176: float(f"{gross_yield:.4f}"), the nearest multiple of 0.0001
Round4(x) == Rat((2 * 10000 * x.n + x.d) \div (2 * x.d), 10000)

\* app.py 165-178: the body of the loop for item number idx (from 0); an
\* exception here is not caught and ends the request
AppItem(item, idx, avg_rent, params) ==
    IF ~item.dict THEN Skipped("AttributeError")
    ELSE
    LET price == GetOr(item.price, JInt(0))
        positive == price.n > 0
        gross_yield == IF positive
                       THEN RatDiv(Rat(avg_rent.n * 12, avg_rent.d), Rat(price.n, price.d))
                       ELSE Rat(0, 1)
        address == PydStr(GetOr(item.address, JStr(Unknown)))
        bedrooms == PydInt(GetOr(item.bedrooms, JInt(params.bedrooms)))
        sqft == PydFloat(GetOr(item.sqft, JInt(0)))
        est_rent == PydFloat(avg_rent)
        url == PydStr(GetOr(item.url, JStr(<<>>)))
    IN  IF ~IsNumber(price) THEN Skipped("TypeError")
        ELSE IF positive /\ ~IsNumber(avg_rent) THEN Skipped("TypeError")
        ELSE IF ~(address.ok /\ bedrooms.ok /\ sqft.ok /\ est_rent.ok /\ url.ok)
        THEN Skipped("ValidationError")
        ELSE Kept(Property(AppId(idx), address.s, Rat(price.n, price.d), bedrooms.n,
                           Rat(sqft.n, sqft.d), Rat(est_rent.n, est_rent.d),
                           Round4(gross_yield), url.s, idx + 1))

\* app.py 163-180: the loop over enumerate(listings); ok is FALSE when an
\* item raised
RECURSIVE AppLoop(_, _, _, _)
AppLoop(listings, k, avg_rent, params) ==
    IF k > Len(listings) THEN [ok |-> TRUE, err |-> "", results |-> <<>>]
    ELSE LET r == AppItem(listings[k], k - 1, avg_rent, params)
             rest == AppLoop(listings, k + 1, avg_rent, params)
         IN  IF ~r.ok THEN [ok |-> FALSE, err |-> r.err, results |-> <<>>]
             ELSE IF ~rest.ok THEN rest
             ELSE [ok |-> TRUE, err |-> "", results |-> <<r.rec>> \o rest.results]

\* app.py 191-196 (estimate_rent) and 204-205 (evaluate_investment)
AppRentStep(r, reply) ==
    LET c == IF reply.kind \in {"raised", "not_object"}
             THEN CallFailed(Called(r, "rent"), "rent")
             ELSE Called(r, "rent")
        rent_data == call_gemini_json(reply)
        avg_rent == GetOr(rent_data.average_rent, JInt(0))
        averageRent == PydFloat(avg_rent)
    IN  IF rent_data.kind = "not_object" THEN Fail(c, "AttributeError")
        ELSE IF r.endpoint = "estimate_rent"
        THEN IF ~averageRent.ok THEN Fail([c EXCEPT !.avg_rent = avg_rent], "ValidationError")
             ELSE [c EXCEPT !.avg_rent = avg_rent, !.status = "ok", !.pc = "done",
                            !.response = [averageRent |-> Rat(averageRent.n, averageRent.d),
                                          properties |-> <<>>]]
        ELSE [c EXCEPT !.avg_rent = avg_rent, !.pc = "listings"]

\* app.py 208-217 with parse_and_find_properties (129-180)
AppListingsStep(r, reply) ==
    LET c == IF reply.kind \in {"raised", "not_object"}
             THEN CallFailed(Called(r, "listings"), "listings")
             ELSE Called(r, "listings")
        data == call_gemini_json(reply)
        listings == IF data.listings = "list" THEN data.items ELSE <<>>
        loop == AppLoop(listings, 1, r.avg_rent, r.params)
        averageRent == PydFloat(r.avg_rent)
        p == [c EXCEPT !.reply_parsed = TRUE, !.reply_props = data.listings,
                       !.raw_props = listings]
    IN  IF data.kind = "not_object" THEN Fail(c, "AttributeError")
        ELSE IF data.listings = "null" THEN Fail(c, "TypeError")
        ELSE IF ~loop.ok THEN Fail(p, loop.err)
        ELSE IF ~averageRent.ok THEN Fail(p, "ValidationError")
        ELSE EvaluationResult(p, Rat(averageRent.n, averageRent.d), loop.results)

\* ------------------------------------------------------------------ pipeline
Variants == {"main", "app"}
Endpoints == {"evaluate", "estimate_rent"}

\* main.py 17-27: what the module holds for every request, set at import
Globals == [openai_client |-> "OpenAI", PERPLEXITY_API_KEY |-> "key"]

\* no concurrent requests
IdleConc == [runs |-> <<>>, start |-> <<>>, hist |-> <<>>, globals |-> Globals,
             overlapped |-> FALSE]

Idle == text = <<>> /\ out = <<>> /\ out2 = <<>> /\ num = Raised("") /\ conc = IdleConc

Init ==
    /\ run \in {NewRun(v, e, p) : v \in Variants, e \in Endpoints, p \in Profiles}
    /\ phase = "pipeline"
    /\ Idle

Rest == UNCHANGED <<conc, text, out, out2, num, phase>>

\* main.py 543 / 559: the rent call and what the handler does with its answer
FetchAverageRent ==
    /\ run.variant = "main" /\ run.status = "running" /\ run.pc = "rent"
    /\ \E reply \in HttpReplies(RentContents) : run' = MainRentStep(run, reply)
    /\ Rest

\* main.py 544
FetchListings ==
    /\ run.variant = "main" /\ run.status = "running" /\ run.pc = "harvest"
    /\ \E reply \in HttpReplies(HarvestTexts) : run' = MainHarvestStep(run, reply)
    /\ Rest

\* main.py 545, then 570-576
ParseListingsAndRank ==
    /\ run.variant = "main" /\ run.status = "running" /\ run.pc = "normalize"
    /\ \E reply \in NormalizeReplies : run' = MainNormalizeStep(run, reply)
    /\ Rest

\* app.py 191 / 204
GetRentalData ==
    /\ run.variant = "app" /\ run.status = "running" /\ run.pc = "rent"
    /\ \E reply \in GeminiRentReplies : run' = AppRentStep(run, reply)
    /\ Rest

\* app.py 208-217
ParseAndFindAndRank ==
    /\ run.variant = "app" /\ run.status = "running" /\ run.pc = "listings"
    /\ \E reply \in GeminiListingReplies : run' = AppListingsStep(run, reply)
    /\ Rest

Next ==
    \/ FetchAverageRent
    \/ FetchListings
    \/ ParseListingsAndRank
    \/ GetRentalData
    \/ ParseAndFindAndRank

Spec == Init /\ [][Next]_vars

\* ------------------------------------------------------------------ the fence stripper alone
FenceAlphabet == {BT, NL, " ", "a"}

IdleRun == NewRun("main", "evaluate", [bedrooms |-> 2, minSqft |-> 700, maxSqft |-> 1100])

InitFence ==
    /\ text \in SeqUpTo(FenceAlphabet, MaxTextLen)
    /\ phase = "input"
    /\ out = <<>> /\ out2 = <<>> /\ num = Raised("") /\ run = IdleRun /\ conc = IdleConc

\* strip_markdown_fences(text)
StripFences ==
    /\ phase = "input"
    /\ out' = strip_markdown_fences(text)
    /\ phase' = "stripped"
    /\ UNCHANGED <<run, conc, text, out2, num>>

\* strip_markdown_fences of what it returned
StripFencesAgain ==
    /\ phase = "stripped"
    /\ out2' = strip_markdown_fences(out)
    /\ phase' = "stripped twice"
    /\ UNCHANGED <<run, conc, text, out, num>>

NextFence == StripFences \/ StripFencesAgain

SpecFence == InitFence /\ [][NextFence]_vars

\* ------------------------------------------------------------------ the coercions alone
\* digits, the dot, and a currency symbol, a comma and a letter for all that
\* the character class of main.py 116 removes
CoerceAlphabet == {"0", "1", ".", "$", ",", "k"}

InitCoerce ==
    /\ text \in SeqUpTo(CoerceAlphabet, MaxStrLen)
    /\ phase = "input"
    /\ out = <<>> /\ out2 = <<>> /\ num = Raised("") /\ run = IdleRun /\ conc = IdleConc

\* _safe_float(text)
CoerceFloat ==
    /\ phase = "input"
    /\ num' = safe_float(JStr(text))
    /\ phase' = "float"
    /\ UNCHANGED <<run, conc, text, out, out2>>

\* _safe_int(text)
CoerceInt ==
    /\ phase = "input"
    /\ num' = safe_int(JStr(text))
    /\ phase' = "int"
    /\ UNCHANGED <<run, conc, text, out, out2>>

NextCoerce == CoerceFloat \/ CoerceInt

SpecCoerce == InitCoerce /\ [][NextCoerce]_vars

\* ================================================================== claims
Returned == run.response.properties
ResolvedRent == Rat(run.avg_rent.n, run.avg_rent.d)
Range(f) == {f[i] : i \in DOMAIN f}
IsPrefix(a, b) == Len(a) <= Len(b) /\ a = Take(b, Len(a))
HasDigit(s) == \E i \in 1..Len(s) : IsDigit(s[i])
HasNonZeroDigit(s) == \E i \in 1..Len(s) : IsDigit(s[i]) /\ s[i] # "0"
DotCount(s) == Len(SelectSeq(s, IsDot))

\* the raw records of the normalization reply that main.py's loop keeps
KeptIndices ==
    {i \in 1..Len(run.raw_props) :
        ProcessRecord(run.raw_props[i], i, ResolvedRent, run.params).ok}

\* C1: in every successful run every returned record has price > 0,
\* sqft > 0, estimatedRent > 0 and grossYield = estimatedRent * 12 / price.
C1_RecordsValid ==
    run.status = "ok" =>
        \A i \in 1..Len(Returned) :
            LET p == Returned[i]
            IN  /\ p.price.n > 0
                /\ p.sqft.n > 0
                /\ p.estimatedRent.n > 0
                /\ RatEq(p.grossYield, GrossYield(p.estimatedRent, p.price))

\* main.py's normalization reply was parsed and its loop kept no record
ZeroSurvivors == run.variant = "main" /\ run.reply_parsed /\ KeptIndices = {}

C3_RentPositive ==
    /\ run.status = "ok" => RatPos(run.response.averageRent)
    /\ "rent" \in Range(run.failures) => run.status = "error"

\* C4: the returned properties are in descending order of grossYield, and
\* records of equal grossYield are in their extraction order.
C4_SortedStable ==
    run.status = "ok" =>
        \A i, j \in 1..Len(Returned) :
            i < j =>
                /\ RatLe(Returned[j].grossYield, Returned[i].grossYield)
                /\ RatEq(Returned[i].grossYield, Returned[j].grossYield)
                       => Returned[i].src < Returned[j].src

C4_Witness ==
    /\ run.status = "ok" /\ Len(Returned) = 2
    /\ RatEq(Returned[1].grossYield, Returned[2].grossYield)
    /\ Returned[1].src = 1 /\ Returned[2].src = 2

\* C5: every returned record's estimatedRent is the averageRent of the
\* result.
C5_SingleRent ==
    run.status = "ok" =>
        \A i \in 1..Len(Returned) :
            RatEq(Returned[i].estimatedRent, run.response.averageRent)

C5_Witness == run.status = "ok" /\ run.variant = "main" /\ Len(Returned) >= 2

\* C6: in main.py, once the normalization reply has parsed as an object the
\* run succeeds with exactly the records whose own processing did not fail,
\* wherever the failing records stand; a run that fails at the normalization
\* call fails on the reply as a whole.
C6_SkipOnlyRecord ==
    run.variant = "main" =>
        /\ run.reply_parsed =>
              /\ run.status = "ok"
              /\ {Returned[i].src : i \in 1..Len(Returned)} = KeptIndices
              /\ Len(Returned) = Cardinality(KeptIndices)
        /\ (run.status = "error" /\ "normalize" \in Range(run.calls)) =>
              ~run.reply_parsed /\ run.failures = <<"normalize">>

C6_Witness ==
    /\ run.variant = "main" /\ run.status = "ok" /\ Len(run.raw_props) >= 2
    /\ 1 \notin KeptIndices /\ 2 \in KeptIndices
    /\ Len(Returned) = 1 /\ Returned[1].src = 2

\* the order of the outbound calls of a run
StageOrder(variant) ==
    IF variant = "main" THEN <<"rent", "harvest", "normalize">> ELSE <<"rent", "listings">>

\* C7: the calls of a run are issued in stage order, each at most once, and
\* a call that fails ends the run in an error with no later call.
C7_OrderedNoRetry ==
    /\ IsPrefix(run.calls, StageOrder(run.variant))
    /\ run.failures # <<>> =>
          /\ run.status = "error"
          /\ run.failures = <<run.calls[Len(run.calls)]>>

\* C8: the returned records have pairwise distinct ids.
C8_DistinctIds ==
    run.status = "ok" =>
        \A i, j \in 1..Len(Returned) : i # j => Returned[i].id # Returned[j].id

\* C9: stripping twice equals stripping once; text with no fence at its start
\* comes back trimmed and otherwise unchanged; the output is always trimmed.
C9_FenceStripIdempotent ==
    /\ phase = "stripped twice" => out2 = out
    /\ phase # "input" =>
          /\ ~StartsWith(StrStrip(text), Fence) => out = StrStrip(text)
          /\ out = StrStrip(out)

\* C10 as the spec states it: coerceFloat(s) succeeds with a result > 0 if
\* and only if s has a digit, and a string with no digit fails.
C10_PositiveIffDigit ==
    phase = "float" =>
        /\ (num.ok /\ num.n > 0) <=> HasDigit(text)
        /\ ~HasDigit(text) => ~num.ok

\* C10, amended: coerceFloat(s) succeeds if and only if s has a digit and at
\* most one dot; the result is > 0 only if s has a non-zero digit; a string
\* with no digit fails with a ValueError and never yields zero.
C10_SucceedsIffDigit ==
    phase = "float" =>
        /\ num.ok <=> (HasDigit(text) /\ DotCount(text) <= 1)
        /\ num.ok => (num.n >= 0 /\ (num.n > 0 <=> HasNonZeroDigit(text)))
        /\ ~HasDigit(text) => (~num.ok /\ num.err = "ValueError")

C10_Witness ==
    /\ phase = "float" /\ HasDigit(text) /\ "$" \in Range(text)
    /\ num.ok /\ num.n = 0

\* the first alias key that is present in a raw record, whatever its value
FirstPresentAlias(p) ==
    IF p.price_usd.t # "missing" THEN p.price_usd
    ELSE IF p.price.t # "missing" THEN p.price
    ELSE p.asking_price

\* the returned record built from raw record i, when there is one
ReturnedFrom(i) == {k \in 1..Len(Returned) : Returned[k].src = i}

\* C12: a returned record's price is the value of the first alias key present
\* in its raw record (price_usd, price, asking_price in that order), and a
\* raw record with no alias key is skipped.
C12_FirstPresentAlias ==
    (run.variant = "main" /\ run.status = "ok") =>
        \A i \in 1..Len(run.raw_props) :
            LET p == run.raw_props[i]
                first == safe_float(FirstPresentAlias(p))
            IN  /\ (p.dict /\ FirstPresentAlias(p).t = "missing") => ReturnedFrom(i) = {}
                /\ \A k \in ReturnedFrom(i) :
                      first.ok /\ RatEq(Returned[k].price, Rat(first.n, first.d))

\* the raw record's price as main.py resolves it is a positive number
ValidPrice(p) ==
    /\ p.dict
    /\ PriceRaw(p).t # "null"
    /\ safe_float(PriceRaw(p)).ok
    /\ safe_float(PriceRaw(p)).n > 0

\* the raw record's bedrooms and sqft are each absent or coercible
DefaultsApply(p) ==
    /\ p.bedrooms.t = "missing" \/ p.sqft.t = "missing"
    /\ p.bedrooms.t = "missing" \/ safe_int(p.bedrooms).ok
    /\ p.sqft.t = "missing" \/ safe_float(p.sqft).ok

\* C13: in main.py a raw record with a valid price whose bedrooms or sqft is
\* absent is kept, with the profile's bedroom count for the absent bedrooms
\* and the midpoint of the profile's size band for the absent sqft.
C13_Defaults ==
    (run.variant = "main" /\ run.status = "ok") =>
        \A i \in 1..Len(run.raw_props) :
            LET p == run.raw_props[i]
            IN  (ValidPrice(p) /\ DefaultsApply(p)) =>
                    /\ ReturnedFrom(i) # {}
                    /\ \A k \in ReturnedFrom(i) :
                          /\ p.bedrooms.t = "missing" =>
                                Returned[k].bedrooms = run.params.bedrooms
                          /\ p.sqft.t = "missing" =>
                                RatEq(Returned[k].sqft,
                                      Rat(run.params.minSqft + run.params.maxSqft, 2))

C13_Witness ==
    /\ run.variant = "main" /\ run.status = "ok" /\ run.params.maxSqft > run.params.minSqft
    /\ \E i \in 1..Len(run.raw_props) :
          /\ run.raw_props[i].bedrooms.t = "missing" /\ run.raw_props[i].sqft.t = "missing"
          /\ ReturnedFrom(i) # {}

\* C14: in main.py a normalization reply that is a JSON object whose
\* "properties" is absent or is no list is taken as holding no raw record,
\* and the run does not fail at that step.
C14_NoListIsEmpty ==
    (run.variant = "main" /\ run.reply_props \in {"missing", "not_list"}) =>
        /\ run.status = "ok"
        /\ run.raw_props = <<>>
        /\ run.properties = <<>>
        /\ Returned = <<>>

C14_Witness ==
    run.variant = "main" /\ run.reply_props = "not_list" /\ run.status = "ok"

\* the yield of a returned record before any rounding
ExactYield(p) == GrossYield(p.estimatedRent, p.price)

\* C15: the returned properties are in descending order of the exact yields
\* estimatedRent * 12 / price: rounding never makes a tie of two records
\* whose exact yields differ.
C15_RankedByExactYield ==
    run.status = "ok" =>
        \A i, j \in 1..Len(Returned) :
            (i < j /\ Returned[i].price.n > 0 /\ Returned[j].price.n > 0) =>
                RatLe(ExactYield(Returned[j]), ExactYield(Returned[i]))

\* C16: in main.py the normalizer's output holds, in the order of the raw
\* records and each at most once, exactly what the loop body built from the
\* records it kept; the ranked sequence holds the same records, each once.
C16_SubsequenceAndPermutation ==
    (run.variant = "main" /\ run.status = "ok" /\ run.endpoint = "evaluate") =>
        /\ \A k \in 1..Len(run.properties) :
              LET i == run.properties[k].src
              IN  /\ i \in 1..Len(run.raw_props)
                  /\ run.properties[k] =
                        ProcessRecord(run.raw_props[i], i, ResolvedRent, run.params).rec
        /\ \A k, m \in 1..Len(run.properties) :
              k < m => run.properties[k].src < run.properties[m].src
        /\ Len(Returned) = Len(run.properties)
        /\ \A k \in 1..Len(run.properties) :
              \E m \in 1..Len(Returned) : Returned[m] = run.properties[k]

C16_Witness ==
    /\ run.variant = "main" /\ run.status = "ok" /\ Len(run.raw_props) = 2
    /\ Len(run.properties) = 2
    /\ Returned[1] = run.properties[2] /\ Returned[2] = run.properties[1]

\* ------------------------------------------------------------------ two requests at once
\* Two requests are served by one event loop: a handler runs until its next
\* await (the rent call, the listings call) and the other may run meanwhile.
\* conc.runs are the two runs, conc.start what they began as, conc.hist the
\* replies each has received, conc.globals the module's globals, and
\* conc.overlapped whether a run has moved while the other was in flight.
RunIds == {1, 2}

\* what the handler of run r does with the reply to the call it awaits
Step(r, reply) ==
    CASE r.variant = "main" /\ r.pc = "rent" -> MainRentStep(r, reply)
      [] r.variant = "main" /\ r.pc = "harvest" -> MainHarvestStep(r, reply)
      [] r.variant = "main" /\ r.pc = "normalize" -> MainNormalizeStep(r, reply)
      [] r.variant = "app" /\ r.pc = "rent" -> AppRentStep(r, reply)
      [] r.variant = "app" /\ r.pc = "listings" -> AppListingsStep(r, reply)

InFlight(r) == r.status = "running" /\ r.calls # <<>>

\* ConcStep with a fault: the rent last resolved is kept in a module global,
\* so a run goes on with the rent of the other
ConcStepSharedRent(c, i, reply) ==
    LET o == 3 - i
        r == c.runs[i]
        seen == IF c.runs[o].avg_rent.t # "null" /\ r.pc # "rent"
                THEN [r EXCEPT !.avg_rent = c.runs[o].avg_rent]
                ELSE r
    IN  [c EXCEPT !.runs[i] = Step(seen, reply),
                  !.hist[i] = Append(@, reply),
                  !.overlapped = @ \/ InFlight(c.runs[o])]

\* main.py 528-576, app.py 186-217: run i goes on with the reply it awaited;
\* the handlers read their arguments, their locals and the module's globals,
\* and write their locals only
ConcStep(c, i, reply) ==
    [c EXCEPT !.runs[i] = Step(c.runs[i], reply),
              !.hist[i] = Append(@, reply),
              !.overlapped = @ \/ InFlight(c.runs[3 - i])]

ConcRecords ==
    {BaseRaw, [BaseRaw EXCEPT !.price_usd = JInt(1001)], [BaseRaw EXCEPT !.price_usd = Missing]}

ConcRentReplies ==
    {[kind |-> "status", content |-> <<>>],
     [kind |-> "content", content |-> <<"{avg:1}">>],
     [kind |-> "content", content |-> <<BT, BT, BT, NL, "{avg:2}", NL, BT, BT, BT>>]}

ConcHarvestReplies ==
    {[kind |-> "envelope", content |-> <<>>], [kind |-> "content", content |-> <<"-", " ", "A">>]}

ConcNormalizeReplies ==
    {[kind |-> "not_json", props |-> "missing", items |-> <<>>]}
        \cup {[kind |-> "object", props |-> "list", items |-> it] :
                it \in SeqUpTo(ConcRecords, MaxConcRecords)}

ConcGeminiRentReplies ==
    {GeminiReply("raised", Missing, "missing", <<>>),
     GeminiReply("object", JInt(1), "missing", <<>>),
     GeminiReply("object", JInt(2), "missing", <<>>)}

ConcGeminiListingReplies ==
    {GeminiReply("raised", Missing, "missing", <<>>)}
        \cup {GeminiReply("object", Missing, "list", it) :
                it \in SeqUpTo(ConcRecords, MaxConcRecords)}

InitConc ==
    /\ \E a, b \in {NewRun(v, e, p) : v \in Variants, e \in Endpoints, p \in Profiles} :
          conc = [runs |-> <<a, b>>, start |-> <<a, b>>, hist |-> <<<<>>, <<>>>>,
                  globals |-> Globals, overlapped |-> FALSE]
    /\ phase = "concurrent"
    /\ text = <<>> /\ out = <<>> /\ out2 = <<>> /\ num = Raised("") /\ run = IdleRun

\* run i is a run of the given backend awaiting the given call
Awaits(i, variant, pc) ==
    /\ conc.runs[i].variant = variant
    /\ conc.runs[i].status = "running"
    /\ conc.runs[i].pc = pc

RestConc == UNCHANGED <<run, text, out, out2, num, phase>>

ConcFetchAverageRent ==
    /\ \E i \in RunIds : Awaits(i, "main", "rent")
          /\ \E reply \in ConcRentReplies : conc' = ConcStep(conc, i, reply)
    /\ RestConc

ConcFetchListings ==
    /\ \E i \in RunIds : Awaits(i, "main", "harvest")
          /\ \E reply \in ConcHarvestReplies : conc' = ConcStep(conc, i, reply)
    /\ RestConc

ConcParseListingsAndRank ==
    /\ \E i \in RunIds : Awaits(i, "main", "normalize")
          /\ \E reply \in ConcNormalizeReplies : conc' = ConcStep(conc, i, reply)
    /\ RestConc

ConcGetRentalData ==
    /\ \E i \in RunIds : Awaits(i, "app", "rent")
          /\ \E reply \in ConcGeminiRentReplies : conc' = ConcStep(conc, i, reply)
    /\ RestConc

ConcParseAndFindAndRank ==
    /\ \E i \in RunIds : Awaits(i, "app", "listings")
          /\ \E reply \in ConcGeminiListingReplies : conc' = ConcStep(conc, i, reply)
    /\ RestConc

NextConc ==
    \/ ConcFetchAverageRent
    \/ ConcFetchListings
    \/ ConcParseListingsAndRank
    \/ ConcGetRentalData
    \/ ConcParseAndFindAndRank

SpecConc == InitConc /\ [][NextConc]_vars

\* the run that begins as r and receives the replies h, served alone
RECURSIVE Replay(_, _)
Replay(r, h) == IF h = <<>> THEN r ELSE Replay(Step(r, Head(h)), Tail(h))

====
